---- MODULE Spec2Model ----
(***************************************************************************)
(* Model of the conduit pipeline core (conduit/pipeline/pipeline.go):      *)
(* Init (importer init, metadata load/verify, processor and exporter       *)
(* init), the round loop of Start with retry and cancellation, the atomic  *)
(* metadata flush, Stop, and process death followed by a restart on the    *)
(* same data directory.                                                    *)
(***************************************************************************)
EXTENDS Integers, Sequences, FiniteSets, TLC

\* ------------------------------------------------------------------ bounds
\* The importer can serve rounds 0..MaxRound-1; GetBlock blocks on later ones.
MaxRound == 2
\* cfg.RetryCount of the modelled configuration.
RetryCount == 1
\* Number of configured processors.
NumProcessors == 1
\* Number of processes (MakePipeline + Init + Start) run on the data directory.
MaxRuns == 2
\* Largest ConduitArgs.NextRoundOverride an operator passes (0 = unset).
MaxOverride == 1
\* cfg.RetryDelay of the modelled configuration, in clock ticks.
RetryDelay == 1
\* Calls of Stop() made on one pipeline instance, at most.
MaxStops == 2

\* ------------------------------------------------------------- data model
\* Go zero value of `state`.
ZeroState == [GenesisHash |-> <<>>, Network |-> "", NextRound |-> 0]

\* Two 32-byte genesis hashes differing in the last (padded) group only.
HashA == [i \in 1..32 |-> i]
HashB == [i \in 1..32 |-> IF i = 32 THEN 33 ELSE i]

\* What importer.Init can return: genesis.Hash() and genesis.Network.
Geneses == { [hash |-> HashA, network |-> "mainnet"],
             [hash |-> HashB, network |-> "testnet"] }

\* base64.StdEncoding.EncodeToString: sextets 0..63, 64 stands for '='.
RECURSIVE Base64Encode(_)
Base64Encode(b) ==
    IF Len(b) = 0 THEN <<>>
    ELSE IF Len(b) = 1 THEN
        << b[1] \div 4, (b[1] % 4) * 16, 64, 64 >>
    ELSE IF Len(b) = 2 THEN
        << b[1] \div 4, (b[1] % 4) * 16 + (b[2] \div 16), (b[2] % 16) * 4, 64 >>
    ELSE
        << b[1] \div 4, (b[1] % 4) * 16 + (b[2] \div 16),
           (b[2] % 16) * 4 + (b[3] \div 64), b[3] % 64 >>
        \o Base64Encode(SubSeq(b, 4, Len(b)))

\* A file of the data directory: absent, zero-length, partially written
\* JSON, or one complete JSON document.
AbsentFile == [kind |-> "absent", rec |-> ZeroState]
EmptyFile == [kind |-> "empty", rec |-> ZeroState]
PartialFile == [kind |-> "partial", rec |-> ZeroState]
FullFile(s) == [kind |-> "full", rec |-> s]

\* Stages in declaration order: importer, processors, exporter.
ImporterStage == 0
ExporterStage == NumProcessors + 1
Stages == ImporterStage..ExporterStage
\* Stages of the modelled configuration that implement conduit.Completed.
ImplementsCompleted(s) == s = ImporterStage \/ s = ExporterStage

NoRound == -1
NoFailure == [round |-> NoRound, stage |-> "none"]
NoKill == [round |-> NoRound, renamed |-> FALSE]

VARIABLES
    pc,               \* position of the caller of Init/Start/Stop ("down": no process)
    wpc,              \* position of the worker goroutine of Start
    idx,              \* loop index of the processor / callback loops
    cfg,              \* ConduitArgs.NextRoundOverride and the importer's genesis
    pipelineMetadata, \* p.pipelineMetadata
    retry,            \* local `retry` of Start
    err,              \* p.err
    ctxDone,          \* p.ctx cancelled
    completeCallback, \* p.completeCallback (stages owning the callbacks)
    blkData,          \* block in flight: its round and the processors applied
    meta,             \* <dataDir>/metadata.json
    temp,             \* <dataDir>/metadata.json.temp
    runs,             \* processes started so far
    wg,               \* p.wg: the WaitGroup counter
    sleepLeft,        \* ticks until the time.Sleep of the worker returns
    \* ---- history variables (observations, not program state)
    inited,           \* stages whose Init was called in this process
    metaAtInit,       \* metadata.json as Init found it
    initErr,          \* why Init returned an error ("none" otherwise)
    received,         \* rounds accepted by exporter.Receive in this process
    firstFetched,     \* round of the first GetBlock call of this process
    attemptRound,     \* round of the latest GetBlock call
    precededBy,       \* failed attempt right before the latest GetBlock call
    lastFailure,      \* latest failed attempt since the last full success
    attempts,         \* GetBlock calls for the current NextRound
    cleanStart,       \* the first attempt of the current round followed Start or a full success
    cursorAtStart,    \* p.pipelineMetadata.NextRound when Start was called
    flushDone,        \* rename completed for the last accepted round
    flushFailed,      \* some flush has returned an error
    killed,           \* last accepted round of the killed predecessor process
    overrideEver,     \* some process ran with NextRoundOverride > 0
    rewound,          \* some override set NextRound below the stored value
    initCount,        \* Init calls made to each stage in this process
    closed,           \* stages in the order their Close was called
    closeFailed,      \* some Close has returned an error
    stopCalls,        \* calls of Stop in this process
    cbInvoked         \* callbacks invoked with the last accepted block

prog == << pc, wpc, idx, cfg, pipelineMetadata, retry, err, ctxDone,
           completeCallback, blkData, meta, temp, runs >>
hist == << inited, metaAtInit, initErr, received, firstFetched, attemptRound,
           precededBy, lastFailure, attempts, cleanStart, cursorAtStart,
           flushDone, flushFailed, killed, overrideEver, rewound >>
more == << wg, sleepLeft, initCount, closed, closeFailed, stopCalls, cbInvoked >>
vars == << prog, hist, more >>

NoBlock == [round |-> NoRound, by |-> 0]
NoCfg == [NextRoundOverride |-> 0, genesis |-> [hash |-> <<>>, network |-> ""]]

\* The data directory is new, or holds a zero-length metadata.json.
Init ==
    /\ pc = "down" /\ wpc = "idle" /\ idx = 0
    /\ cfg = NoCfg
    /\ pipelineMetadata = ZeroState
    /\ retry = 0 /\ err = "nil" /\ ctxDone = FALSE
    /\ completeCallback = <<>>
    /\ blkData = NoBlock
    /\ meta \in {AbsentFile, EmptyFile}
    /\ temp = AbsentFile
    /\ runs = 0
    /\ inited = {} /\ metaAtInit = AbsentFile /\ initErr = "none"
    /\ received = <<>> /\ firstFetched = NoRound
    /\ attemptRound = NoRound /\ precededBy = NoFailure /\ lastFailure = NoFailure
    /\ attempts = 0 /\ cleanStart = TRUE /\ cursorAtStart = NoRound
    /\ flushDone = FALSE /\ flushFailed = FALSE
    /\ killed = NoKill /\ overrideEver = FALSE /\ rewound = FALSE
    /\ wg = 0 /\ sleepLeft = 0
    /\ initCount = [s \in Stages |-> 0]
    /\ closed = <<>> /\ closeFailed = FALSE /\ stopCalls = 0
    /\ cbInvoked = 0


\* ------------------------------------------------ process start and death
\* MakePipeline: a new process is constructed on the same data directory.
MakePipeline ==
    /\ pc = "down" /\ runs < MaxRuns
    /\ \E o \in 0..MaxOverride, g \in Geneses :
          /\ cfg' = [NextRoundOverride |-> o, genesis |-> g]
          /\ overrideEver' = (overrideEver \/ o > 0)
    /\ pc' = "constructed"
    /\ runs' = runs + 1
    /\ UNCHANGED << wpc, idx, pipelineMetadata, retry, err, ctxDone,
                    completeCallback, blkData, meta, temp >>
    /\ UNCHANGED << inited, metaAtInit, initErr, received, firstFetched,
                    attemptRound, precededBy, lastFailure, attempts,
                    cleanStart, cursorAtStart, flushDone, flushFailed, killed, rewound >>
    /\ UNCHANGED << wg, sleepLeft, initCount, closed, closeFailed,
                    stopCalls, cbInvoked >>

\* The process is killed (or exits): memory is lost, the files stay.
Kill ==
    /\ pc # "down"
    /\ pc' = "down" /\ wpc' = "idle" /\ idx' = 0
    /\ cfg' = NoCfg
    /\ pipelineMetadata' = ZeroState
    /\ retry' = 0 /\ err' = "nil" /\ ctxDone' = FALSE
    /\ completeCallback' = <<>>
    /\ blkData' = NoBlock
    /\ killed' = IF received # <<>>
                 THEN [round |-> received[Len(received)], renamed |-> flushDone]
                 ELSE killed
    /\ inited' = {} /\ initErr' = "none"
    /\ received' = <<>> /\ firstFetched' = NoRound
    /\ attemptRound' = NoRound /\ precededBy' = NoFailure
    /\ lastFailure' = NoFailure
    /\ attempts' = 0 /\ cleanStart' = TRUE /\ cursorAtStart' = NoRound
    /\ flushDone' = FALSE
    /\ UNCHANGED << meta, temp, runs, metaAtInit, flushFailed, overrideEver,
                    rewound >>
    /\ wg' = 0
    /\ sleepLeft' = 0
    /\ initCount' = [s \in Stages |-> 0]
    /\ closed' = <<>>
    /\ closeFailed' = FALSE
    /\ stopCalls' = 0
    /\ cbInvoked' = 0

\* ------------------------------------------------- encodeMetadataToFile
\* os.Create(tempFilename): creates or truncates the temp file.
CreatedTemp == EmptyFile
\* json.NewEncoder(file).Encode(p.pipelineMetadata) wrote the whole record.
EncodedTemp(s) == FullFile(s)
\* Encode returned an error: nothing or a part of the document was written.
FailedEncodes == {EmptyFile, PartialFile}
\* os.Rename(tempFilename, pipelineMetadataFilePath): metadata.json becomes
\* the temp file, in one step.
RenamedMeta(t) == t

\* ----------------------------------------------------------------- Init
\* Init returns an error.
InitFails(why) ==
    /\ pc' = "init_failed"
    /\ initErr' = why

\* Lines 265-285: importer.Init, genesis capture.
ImporterInit ==
    /\ pc = "constructed"
    /\ inited' = inited \cup {ImporterStage}
    /\ metaAtInit' = meta
    /\ \/ /\ pc' = "load"
          /\ pipelineMetadata' =
                [pipelineMetadata EXCEPT
                    !.GenesisHash = Base64Encode(cfg.genesis.hash),
                    !.Network = cfg.genesis.network]
          /\ UNCHANGED initErr
       \/ /\ InitFails("importer")
          /\ UNCHANGED pipelineMetadata
    /\ UNCHANGED << wpc, idx, cfg, retry, err, ctxDone, completeCallback,
                    blkData, meta, temp, runs >>
    /\ UNCHANGED << received, firstFetched, attemptRound, precededBy,
                    lastFailure, attempts, cleanStart, cursorAtStart, flushDone,
                    flushFailed, killed, overrideEver, rewound >>
    /\ initCount' = [initCount EXCEPT ![ImporterStage] = @ + 1]
    /\ UNCHANGED << wg, sleepLeft, closed, closeFailed, stopCalls,
                    cbInvoked >>

\* initializeOrLoadBlockMetadata, lines 525-527 and 537-550: os.Stat, then
\* either the create branch or ReadFile + Unmarshal.
LoadMetadata ==
    /\ pc = "load"
    /\ \/ /\ meta.kind = "absent"
          /\ pc' = "init_create"
          /\ UNCHANGED << pipelineMetadata, initErr >>
       \/ /\ meta.kind = "empty"
          /\ pc' = "init_remove"
          /\ UNCHANGED << pipelineMetadata, initErr >>
       \/ /\ meta.kind = "full"
          /\ pc' = "verify"
          /\ pipelineMetadata' = meta.rec
          /\ UNCHANGED initErr
       \/ \* ReadFile failed, or the document does not parse.
          /\ meta.kind \in {"partial", "full"}
          /\ InitFails("metadata")
          /\ UNCHANGED pipelineMetadata
    /\ UNCHANGED << wpc, idx, cfg, retry, err, ctxDone, completeCallback,
                    blkData, meta, temp, runs >>
    /\ UNCHANGED << inited, metaAtInit, received, firstFetched, attemptRound,
                    precededBy, lastFailure, attempts, cleanStart, cursorAtStart,
                    flushDone, flushFailed, killed, overrideEver, rewound >>
    /\ UNCHANGED << wg, sleepLeft, initCount, closed, closeFailed,
                    stopCalls, cbInvoked >>

\* Lines 527-532: a zero-length metadata.json is deleted.
RemoveEmptyMetadata ==
    /\ pc = "init_remove"
    /\ \/ /\ meta' = AbsentFile
          /\ pc' = "init_create"
          /\ UNCHANGED initErr
       \/ /\ InitFails("metadata")
          /\ UNCHANGED meta
    /\ UNCHANGED << wpc, idx, cfg, pipelineMetadata, retry, err, ctxDone,
                    completeCallback, blkData, temp, runs >>
    /\ UNCHANGED << inited, metaAtInit, received, firstFetched, attemptRound,
                    precededBy, lastFailure, attempts, cleanStart, cursorAtStart,
                    flushDone, flushFailed, killed, overrideEver, rewound >>
    /\ UNCHANGED << wg, sleepLeft, initCount, closed, closeFailed,
                    stopCalls, cbInvoked >>

\* Lines 533-536 calling 507-510.
InitCreateTemp ==
    /\ pc = "init_create"
    /\ \/ /\ temp' = CreatedTemp
          /\ pc' = "init_write"
          /\ UNCHANGED << initErr, flushFailed >>
       \/ /\ InitFails("metadata")
          /\ flushFailed' = TRUE
          /\ UNCHANGED temp
    /\ UNCHANGED << wpc, idx, cfg, pipelineMetadata, retry, err, ctxDone,
                    completeCallback, blkData, meta, runs >>
    /\ UNCHANGED << inited, metaAtInit, received, firstFetched, attemptRound,
                    precededBy, lastFailure, attempts, cleanStart, cursorAtStart,
                    flushDone, killed, overrideEver, rewound >>
    /\ UNCHANGED << wg, sleepLeft, initCount, closed, closeFailed,
                    stopCalls, cbInvoked >>

\* Lines 533-536 calling 512-515.
InitEncodeTemp ==
    /\ pc = "init_write"
    /\ \/ /\ temp' = EncodedTemp(pipelineMetadata)
          /\ pc' = "init_rename"
          /\ UNCHANGED << initErr, flushFailed >>
       \/ /\ temp' \in FailedEncodes
          /\ InitFails("metadata")
          /\ flushFailed' = TRUE
    /\ UNCHANGED << wpc, idx, cfg, pipelineMetadata, retry, err, ctxDone,
                    completeCallback, blkData, meta, runs >>
    /\ UNCHANGED << inited, metaAtInit, received, firstFetched, attemptRound,
                    precededBy, lastFailure, attempts, cleanStart, cursorAtStart,
                    flushDone, killed, overrideEver, rewound >>
    /\ UNCHANGED << wg, sleepLeft, initCount, closed, closeFailed,
                    stopCalls, cbInvoked >>

\* Lines 533-536 calling 517-521.
InitRenameTemp ==
    /\ pc = "init_rename"
    /\ \/ /\ meta' = RenamedMeta(temp)
          /\ temp' = AbsentFile
          /\ pc' = "verify"
          /\ UNCHANGED << initErr, flushFailed >>
       \/ /\ InitFails("metadata")
          /\ flushFailed' = TRUE
          /\ UNCHANGED << meta, temp >>
    /\ UNCHANGED << wpc, idx, cfg, pipelineMetadata, retry, err, ctxDone,
                    completeCallback, blkData, runs >>
    /\ UNCHANGED << inited, metaAtInit, received, firstFetched, attemptRound,
                    precededBy, lastFailure, attempts, cleanStart, cursorAtStart,
                    flushDone, killed, overrideEver, rewound >>
    /\ UNCHANGED << wg, sleepLeft, initCount, closed, closeFailed,
                    stopCalls, cbInvoked >>

\* Mutant: the genesis check accepts any stored hash.
GenesisMatches_Always(stored, expected) == TRUE

\* Line 290: the loaded genesis hash against the importer's.
GenesisMatches(stored, expected) == stored = expected

\* Mutant: NextRoundOverride is ignored.
StartRound_NoOverride(loaded, override) == loaded

\* Lines 294-297: NextRoundOverride replaces the loaded next round.
StartRound(loaded, override) == IF override > 0 THEN override ELSE loaded

\* Lines 290-297.
VerifyGenesis ==
    /\ pc = "verify"
    /\ IF GenesisMatches(pipelineMetadata.GenesisHash,
                         Base64Encode(cfg.genesis.hash))
       THEN /\ pipelineMetadata' =
                  [pipelineMetadata EXCEPT
                      !.NextRound = StartRound(@, cfg.NextRoundOverride)]
            /\ rewound' = (rewound \/
                  pipelineMetadata'.NextRound < pipelineMetadata.NextRound)
            /\ pc' = IF NumProcessors = 0 THEN "init_exporter"
                     ELSE "init_processor"
            /\ idx' = 1
            /\ UNCHANGED initErr
       ELSE /\ InitFails("genesis")
            /\ UNCHANGED << pipelineMetadata, idx, rewound >>
    /\ UNCHANGED << wpc, cfg, retry, err, ctxDone, completeCallback,
                    blkData, meta, temp, runs >>
    /\ UNCHANGED << inited, metaAtInit, received, firstFetched, attemptRound,
                    precededBy, lastFailure, attempts, cleanStart, cursorAtStart,
                    flushDone, flushFailed, killed, overrideEver >>
    /\ UNCHANGED << wg, sleepLeft, initCount, closed, closeFailed,
                    stopCalls, cbInvoked >>

\* Lines 306-322: the processors' Init, in declaration order.
ProcessorInit ==
    /\ pc = "init_processor"
    /\ inited' = inited \cup {idx}
    /\ \/ /\ idx' = idx + 1
          /\ pc' = IF idx = NumProcessors THEN "init_exporter"
                   ELSE "init_processor"
          /\ UNCHANGED initErr
       \/ /\ InitFails("processor")
          /\ UNCHANGED idx
    /\ UNCHANGED << wpc, cfg, pipelineMetadata, retry, err, ctxDone,
                    completeCallback, blkData, meta, temp, runs >>
    /\ UNCHANGED << metaAtInit, received, firstFetched, attemptRound,
                    precededBy, lastFailure, attempts, cleanStart, cursorAtStart,
                    flushDone, flushFailed, killed, overrideEver, rewound >>
    /\ initCount' = [initCount EXCEPT ![idx] = @ + 1]
    /\ UNCHANGED << wg, sleepLeft, closed, closeFailed, stopCalls,
                    cbInvoked >>

\* registerLifecycleCallbacks: importer, processors, exporter, in that order.
RegisteredCallbacks ==
    SelectSeq([i \in 1..(NumProcessors + 2) |-> i - 1], ImplementsCompleted)

\* Lines 324-342: exporter.Init, then the completion callbacks.
ExporterInit ==
    /\ pc = "init_exporter"
    /\ inited' = inited \cup {ExporterStage}
    /\ \/ /\ completeCallback' = completeCallback \o RegisteredCallbacks
          /\ pc' = "initialized"
          /\ UNCHANGED initErr
       \/ /\ InitFails("exporter")
          /\ UNCHANGED completeCallback
    /\ UNCHANGED << wpc, idx, cfg, pipelineMetadata, retry, err, ctxDone,
                    blkData, meta, temp, runs >>
    /\ UNCHANGED << metaAtInit, received, firstFetched, attemptRound,
                    precededBy, lastFailure, attempts, cleanStart, cursorAtStart,
                    flushDone, flushFailed, killed, overrideEver, rewound >>
    /\ initCount' = [initCount EXCEPT ![ExporterStage] = @ + 1]
    /\ UNCHANGED << wg, sleepLeft, closed, closeFailed, stopCalls,
                    cbInvoked >>


\* ---------------------------------------------------------------- Start
\* Line 402: p.wg.Add(1).
wgAdd(n) == n + 1

\* Line 405 without the deferred p.wg.Done().
wgDone_Missing(n) == n

\* Line 405: the deferred p.wg.Done() of the worker goroutine.
wgDone(n) == n - 1

\* A caller that may also call Start before Init.
CallerMayStart_BeforeInit == pc \in {"constructed", "initialized"}

\* The caller follows the lifecycle Constructed -> Initialized -> Running:
\* it calls Start once, after Init has returned nil.
CallerMayStart == pc = "initialized"

\* Lines 401-404: the worker goroutine is spawned with retry = 0.
Start ==
    /\ CallerMayStart
    /\ pc' = "running"
    /\ wpc' = "top"
    /\ retry' = 0
    /\ cursorAtStart' = pipelineMetadata.NextRound
    /\ UNCHANGED << idx, cfg, pipelineMetadata, err, ctxDone,
                    completeCallback, blkData, meta, temp, runs >>
    /\ UNCHANGED << inited, metaAtInit, initErr, received, firstFetched,
                    attemptRound, precededBy, lastFailure, attempts,
                    cleanStart, flushDone, flushFailed, killed, overrideEver,
                    rewound >>
    /\ wg' = wgAdd(wg)
    /\ UNCHANGED << sleepLeft, initCount, closed, closeFailed, stopCalls,
                    cbInvoked >>

\* Line 411 with the worker giving up one failure later.
RetryExceeded_Late(r) == r > RetryCount + 1

\* Line 411.
RetryExceeded(r) == r > RetryCount

\* Lines 410-418: the retry check, then the choice to sleep.
LoopTop ==
    /\ wpc = "top"
    /\ wpc' = IF RetryExceeded(retry) THEN "exhausted"
              ELSE IF retry > 0 THEN "sleep" ELSE "select"
    /\ UNCHANGED << pc, idx, cfg, pipelineMetadata, retry, err, ctxDone,
                    completeCallback, blkData, meta, temp, runs >>
    /\ UNCHANGED hist
    /\ wg' = IF RetryExceeded(retry) THEN wgDone(wg) ELSE wg
    /\ sleepLeft' = IF ~RetryExceeded(retry) /\ retry > 0 THEN RetryDelay
                    ELSE sleepLeft
    /\ UNCHANGED << initCount, closed, closeFailed, stopCalls,
                    cbInvoked >>

\* Line 417: time passes while the worker is in time.Sleep.
Tick ==
    /\ wpc = "sleep"
    /\ sleepLeft > 0
    /\ sleepLeft' = sleepLeft - 1
    /\ UNCHANGED << prog, hist >>
    /\ UNCHANGED << wg, initCount, closed, closeFailed, stopCalls, cbInvoked >>

\* Line 417: time.Sleep(p.cfg.RetryDelay) returns.
Sleep ==
    /\ wpc = "sleep"
    /\ sleepLeft = 0
    /\ wpc' = "select"
    /\ UNCHANGED << pc, idx, cfg, pipelineMetadata, retry, err, ctxDone,
                    completeCallback, blkData, meta, temp, runs >>
    /\ UNCHANGED hist
    /\ UNCHANGED << wg, sleepLeft, initCount, closed, closeFailed,
                    stopCalls, cbInvoked >>

\* Lines 420-424 with the check of p.ctx.Done() left out.
CtxCheck_Skipped(done) == "import"

\* Lines 420-424: select { case <-p.ctx.Done(): return; default: }.
CtxCheck(done) == IF done THEN "cancelled" ELSE "import"

\* Lines 420-424: the non-blocking check of p.ctx.Done().
Select ==
    /\ wpc = "select"
    /\ wpc' = CtxCheck(ctxDone)
    /\ UNCHANGED << pc, idx, cfg, pipelineMetadata, retry, err, ctxDone,
                    completeCallback, blkData, meta, temp, runs >>
    /\ UNCHANGED hist
    /\ wg' = IF wpc' = "cancelled" THEN wgDone(wg) ELSE wg
    /\ UNCHANGED << sleepLeft, initCount, closed, closeFailed, stopCalls,
                    cbInvoked >>

\* setError(err); retry++; goto pipelineRun.
RetryAfterFailure(r) == r + 1

\* Lines 180-184 with the first error kept instead of the latest.
setError_KeepFirst(cur, e) == IF cur = "nil" THEN e ELSE cur

\* Lines 180-184: p.err = err.
setError(cur, e) == e

AttemptFails(stage, round) ==
    /\ err' = setError(err, stage)
    /\ retry' = RetryAfterFailure(retry)
    /\ wpc' = "top"
    /\ lastFailure' = [round |-> round, stage |-> stage]

\* Lines 425-435: importer.GetBlock(p.pipelineMetadata.NextRound).
GetBlock ==
    /\ wpc = "import"
    /\ attemptRound' = pipelineMetadata.NextRound
    /\ precededBy' = lastFailure
    /\ firstFetched' = IF firstFetched = NoRound
                       THEN pipelineMetadata.NextRound ELSE firstFetched
    /\ attempts' = attempts + 1
    /\ cleanStart' = IF attempts = 0 THEN lastFailure = NoFailure
                     ELSE cleanStart
    /\ \/ /\ pipelineMetadata.NextRound < MaxRound
          /\ blkData' = [round |-> pipelineMetadata.NextRound, by |-> 0]
          /\ idx' = 1
          /\ wpc' = IF NumProcessors = 0 THEN "export" ELSE "process"
          /\ UNCHANGED << err, retry, lastFailure >>
       \/ /\ AttemptFails("importer", pipelineMetadata.NextRound)
          /\ UNCHANGED << blkData, idx >>
    /\ UNCHANGED << pc, cfg, pipelineMetadata, ctxDone, completeCallback,
                    meta, temp, runs >>
    /\ UNCHANGED << inited, metaAtInit, initErr, received, cursorAtStart,
                    flushDone, flushFailed, killed, overrideEver, rewound >>
    /\ UNCHANGED << wg, sleepLeft, initCount, closed, closeFailed,
                    stopCalls, cbInvoked >>

\* Line 445 with the processor's output thrown away.
ProcessOutput_Dropped(blk, i) == blk

\* Line 445: blkData, err = (*proc).Process(blkData); the block is now the
\* output of processor i.
ProcessOutput(blk, i) == [blk EXCEPT !.by = i]

\* Lines 443-453: processor idx transforms the block.
Process ==
    /\ wpc = "process"
    /\ \/ /\ blkData' = ProcessOutput(blkData, idx)
          /\ idx' = idx + 1
          /\ wpc' = IF idx = NumProcessors THEN "export" ELSE "process"
          /\ UNCHANGED << err, retry, lastFailure >>
       \/ /\ AttemptFails("processor", attemptRound)
          /\ UNCHANGED << blkData, idx >>
    /\ UNCHANGED << pc, cfg, pipelineMetadata, ctxDone, completeCallback,
                    meta, temp, runs >>
    /\ UNCHANGED << inited, metaAtInit, initErr, received, firstFetched,
                    attemptRound, precededBy, attempts, cleanStart,
                    cursorAtStart, flushDone, flushFailed, killed,
                    overrideEver, rewound >>
    /\ UNCHANGED << wg, sleepLeft, initCount, closed, closeFailed,
                    stopCalls, cbInvoked >>

\* Mutant: the cursor advances by two.
NextRoundAfterExport_Twice(n) == n + 2

\* Mutant: the cursor does not advance.
NextRoundAfterExport_Stuck(n) == n

\* Line 466: p.pipelineMetadata.NextRound++ (MaxRound keeps it far from
\* the uint64 wrap).
NextRoundAfterExport(n) == n + 1

\* Lines 466-472 with the completion callbacks run before the flush.
AfterReceive_Callbacks == "callback"

\* Lines 466-467: after the cursor advances the worker calls
\* p.encodeMetadataToFile().
AfterReceive == "flush_create"

\* Lines 455-466: exporter.Receive, then the in-memory cursor advances.
Receive ==
    /\ wpc = "export"
    /\ \/ /\ received' = Append(received, blkData.round)
          /\ pipelineMetadata' =
                [pipelineMetadata EXCEPT
                    !.NextRound = NextRoundAfterExport(@)]
          /\ wpc' = AfterReceive
          /\ attempts' = 0
          /\ flushDone' = FALSE
          /\ UNCHANGED << err, retry, lastFailure >>
       \/ /\ AttemptFails("exporter", attemptRound)
          /\ UNCHANGED << received, pipelineMetadata, attempts, flushDone >>
    /\ UNCHANGED << pc, idx, cfg, ctxDone, completeCallback, blkData,
                    meta, temp, runs >>
    /\ UNCHANGED << inited, metaAtInit, initErr, firstFetched, attemptRound,
                    precededBy, cleanStart, cursorAtStart, flushFailed,
                    killed, overrideEver, rewound >>
    /\ cbInvoked' = IF received' # received THEN 0 ELSE cbInvoked
    /\ UNCHANGED << wg, sleepLeft, initCount, closed, closeFailed,
                    stopCalls >>

\* Lines 468-470 with a failed flush ending the attempt.
FlushEnds_SkipCallbacks(failed) ==
    /\ wpc' = IF failed THEN "top" ELSE "callback"
    /\ idx' = 1
    /\ flushFailed' = (flushFailed \/ failed)

\* Lines 468-470: a flush error is logged; the worker goes on to the
\* completion callbacks.
FlushEnds(failed) ==
    /\ wpc' = "callback"
    /\ idx' = 1
    /\ flushFailed' = (flushFailed \/ failed)

\* Line 467 calling 507-510.
FlushCreateTemp ==
    /\ wpc = "flush_create"
    /\ \/ /\ temp' = CreatedTemp
          /\ wpc' = "flush_write"
          /\ UNCHANGED << idx, flushFailed >>
       \/ /\ FlushEnds(TRUE)
          /\ UNCHANGED temp
    /\ UNCHANGED << pc, cfg, pipelineMetadata, retry, err, ctxDone,
                    completeCallback, blkData, meta, runs >>
    /\ UNCHANGED << inited, metaAtInit, initErr, received, firstFetched,
                    attemptRound, precededBy, lastFailure, attempts,
                    cleanStart, cursorAtStart, flushDone, killed, overrideEver,
                    rewound >>
    /\ UNCHANGED << wg, sleepLeft, initCount, closed, closeFailed,
                    stopCalls, cbInvoked >>

\* Mutant: the error of Encode is ignored and the temp file renamed anyway.
FlushEncodeTemp_IgnoreError ==
    /\ wpc = "flush_write"
    /\ temp' \in {EncodedTemp(pipelineMetadata)} \cup FailedEncodes
    /\ wpc' = "flush_rename"
    /\ UNCHANGED << idx, flushFailed >>
    /\ UNCHANGED << pc, cfg, pipelineMetadata, retry, err, ctxDone,
                    completeCallback, blkData, meta, runs >>
    /\ UNCHANGED << inited, metaAtInit, initErr, received, firstFetched,
                    attemptRound, precededBy, lastFailure, attempts,
                    cleanStart, cursorAtStart, flushDone, killed, overrideEver,
                    rewound >>
    /\ UNCHANGED << wg, sleepLeft, initCount, closed, closeFailed,
                    stopCalls, cbInvoked >>

\* Line 467 calling 512-515.
FlushEncodeTemp ==
    /\ wpc = "flush_write"
    /\ \/ /\ temp' = EncodedTemp(pipelineMetadata)
          /\ wpc' = "flush_rename"
          /\ UNCHANGED << idx, flushFailed >>
       \/ /\ temp' \in FailedEncodes
          /\ FlushEnds(TRUE)
    /\ UNCHANGED << pc, cfg, pipelineMetadata, retry, err, ctxDone,
                    completeCallback, blkData, meta, runs >>
    /\ UNCHANGED << inited, metaAtInit, initErr, received, firstFetched,
                    attemptRound, precededBy, lastFailure, attempts,
                    cleanStart, cursorAtStart, flushDone, killed, overrideEver,
                    rewound >>
    /\ UNCHANGED << wg, sleepLeft, initCount, closed, closeFailed,
                    stopCalls, cbInvoked >>

\* Line 467 calling 517-521.
FlushRenameTemp ==
    /\ wpc = "flush_rename"
    /\ \/ /\ meta' = RenamedMeta(temp)
          /\ temp' = AbsentFile
          /\ flushDone' = TRUE
          /\ FlushEnds(FALSE)
       \/ /\ FlushEnds(TRUE)
          /\ UNCHANGED << meta, temp, flushDone >>
    /\ UNCHANGED << pc, cfg, pipelineMetadata, retry, err, ctxDone,
                    completeCallback, blkData, runs >>
    /\ UNCHANGED << inited, metaAtInit, initErr, received, firstFetched,
                    attemptRound, precededBy, lastFailure, attempts,
                    cleanStart, cursorAtStart, killed, overrideEver, rewound >>
    /\ UNCHANGED << wg, sleepLeft, initCount, closed, closeFailed,
                    stopCalls, cbInvoked >>

\* Lines 473-481: completion callback idx is invoked with the block.
Callback ==
    /\ wpc = "callback"
    /\ idx <= Len(completeCallback)
    /\ \/ /\ idx' = idx + 1
          /\ UNCHANGED << wpc, err, retry, lastFailure >>
       \/ /\ AttemptFails("callback", attemptRound)
          /\ UNCHANGED idx
    /\ UNCHANGED << pc, cfg, pipelineMetadata, ctxDone, completeCallback,
                    blkData, meta, temp, runs >>
    /\ UNCHANGED << inited, metaAtInit, initErr, received, firstFetched,
                    attemptRound, precededBy, attempts, cleanStart,
                    cursorAtStart, flushDone, flushFailed, killed,
                    overrideEver, rewound >>
    /\ cbInvoked' = cbInvoked + 1
    /\ UNCHANGED << wg, sleepLeft, initCount, closed, closeFailed,
                    stopCalls >>

\* Mutant: a successful round leaves the retry counter as it is.
RetryAfterSuccess_Kept(r) == r

\* Line 488.
RetryAfterSuccess(r) == 0

\* Lines 482-488: every callback succeeded; the error is cleared and the
\* retry counter reset.
RoundComplete ==
    /\ wpc = "callback"
    /\ idx > Len(completeCallback)
    /\ err' = setError(err, "nil")
    /\ retry' = RetryAfterSuccess(retry)
    /\ wpc' = "top"
    /\ lastFailure' = NoFailure
    /\ UNCHANGED << pc, idx, cfg, pipelineMetadata, ctxDone,
                    completeCallback, blkData, meta, temp, runs >>
    /\ UNCHANGED << inited, metaAtInit, initErr, received, firstFetched,
                    attemptRound, precededBy, attempts, cleanStart,
                    cursorAtStart, flushDone, flushFailed, killed,
                    overrideEver, rewound >>
    /\ UNCHANGED << wg, sleepLeft, initCount, closed, closeFailed,
                    stopCalls, cbInvoked >>

\* --------------------------------------------------------------- panics
\* Lines 405-407: the deferred HandlePanic(p.logger) recovers and logs the
\* panic; the goroutine ends and is not restarted.
HandlePanic == "panicked"

\* A stage call (GetBlock, Process, Receive or a completion callback)
\* panics: the deferred calls of lines 405-407 run.
StagePanics ==
    /\ \/ wpc \in {"import", "process", "export"}
       \/ wpc = "callback" /\ idx <= Len(completeCallback)
    /\ wpc' = HandlePanic
    /\ wg' = wgDone(wg)
    /\ cbInvoked' = IF wpc = "callback" THEN cbInvoked + 1 ELSE cbInvoked
    /\ UNCHANGED << pc, idx, cfg, pipelineMetadata, retry, err, ctxDone,
                    completeCallback, blkData, meta, temp, runs >>
    /\ UNCHANGED hist
    /\ UNCHANGED << sleepLeft, initCount, closed, closeFailed, stopCalls >>

\* ------------------------------------------------------------ Stop, Wait
\* The worker goroutine has returned (lines 413, 422, or a panic).
WorkerExited == wpc \in {"cancelled", "exhausted", "panicked"}

\* Lines 576: the parent context of the pipeline is cancelled.
ParentCancel ==
    /\ pc = "running"
    /\ ~ctxDone
    /\ ctxDone' = TRUE
    /\ UNCHANGED << pc, wpc, idx, cfg, pipelineMetadata, retry, err,
                    completeCallback, blkData, meta, temp, runs >>
    /\ UNCHANGED hist
    /\ UNCHANGED more

\* Lines 496-498: a call of Wait made after Start returns once the counter
\* of p.wg is zero.
Wait ==
    /\ pc = "running"
    /\ wg = 0
    /\ pc' = "waited"
    /\ UNCHANGED << wpc, idx, cfg, pipelineMetadata, retry, err, ctxDone,
                    completeCallback, blkData, meta, temp, runs >>
    /\ UNCHANGED hist
    /\ UNCHANGED more

\* The caller stops a started pipeline, once.
CallerMayStop == pc \in {"running", "waited"}

\* Line 354: p.cf().
Stop ==
    /\ CallerMayStop
    /\ ctxDone' = TRUE
    /\ pc' = "stopping"
    /\ stopCalls' = stopCalls + 1
    /\ UNCHANGED << wpc, idx, cfg, pipelineMetadata, retry, err,
                    completeCallback, blkData, meta, temp, runs >>
    /\ UNCHANGED hist
    /\ UNCHANGED << wg, sleepLeft, initCount, closed, closeFailed,
                    cbInvoked >>

\* Lines 370-385 with Stop returning at the first Close error.
AfterClose_Return(failed, next) == IF failed THEN ExporterStage + 1 ELSE next

\* Lines 370-373, 376-379, 382-384: a Close error is logged and Stop goes
\* on with the next stage.
AfterClose(failed, next) == next

\* Lines 370-385: the stages Stop() calls Close on, from stage s on, when
\* Close fails for the stages in fails.
RECURSIVE ClosedFrom(_, _)
ClosedFrom(s, fails) ==
    IF s > ExporterStage THEN << >>
    ELSE << s >> \o ClosedFrom(AfterClose(s \in fails, s + 1), fails)

\* Lines 355-385: p.wg.Wait() returns once the counter is zero; the profile
\* and the PID file are cleaned up and the stages are closed.  At most one
\* stage's Close returns an error.
StopReturns ==
    /\ pc = "stopping"
    /\ wg = 0
    /\ \E fails \in {{}} \cup {{s} : s \in Stages} :
          /\ closed' = closed \o ClosedFrom(ImporterStage, fails)
          /\ closeFailed' = (closeFailed \/ fails # {})
    /\ pc' = "stopped"
    /\ UNCHANGED << wpc, idx, cfg, pipelineMetadata, retry, err, ctxDone,
                    completeCallback, blkData, meta, temp, runs >>
    /\ UNCHANGED hist
    /\ UNCHANGED << wg, sleepLeft, initCount, stopCalls, cbInvoked >>

Next ==
    \/ MakePipeline \/ Kill
    \/ ImporterInit \/ LoadMetadata \/ RemoveEmptyMetadata
    \/ InitCreateTemp \/ InitEncodeTemp \/ InitRenameTemp
    \/ VerifyGenesis \/ ProcessorInit \/ ExporterInit
    \/ Start \/ LoopTop \/ Tick \/ Sleep \/ Select
    \/ GetBlock \/ Process \/ Receive
    \/ FlushCreateTemp \/ FlushEncodeTemp \/ FlushRenameTemp
    \/ Callback \/ RoundComplete \/ StagePanics
    \/ ParentCancel \/ Wait \/ Stop \/ StopReturns

Spec == Init /\ [][Next]_vars

\* Lines 353-355: Stop() is called on a pipeline that was stopped before;
\* nothing in Stop() tells a second call from the first, so p.cf() and
\* p.wg.Wait() return at once and the stages are closed again.
StopAgain ==
    /\ pc = "stopped"
    /\ stopCalls < MaxStops
    /\ pc' = "stopping"
    /\ stopCalls' = stopCalls + 1
    /\ UNCHANGED << wpc, idx, cfg, pipelineMetadata, retry, err, ctxDone,
                    completeCallback, blkData, meta, temp, runs >>
    /\ UNCHANGED hist
    /\ UNCHANGED << wg, sleepLeft, initCount, closed, closeFailed, cbInvoked >>

\* One pipeline instance, from MakePipeline on, in a process that is not
\* killed, with a caller that may call Stop() again.
NextAnyOrder ==
    \/ MakePipeline
    \/ ImporterInit \/ LoadMetadata \/ RemoveEmptyMetadata
    \/ InitCreateTemp \/ InitEncodeTemp \/ InitRenameTemp
    \/ VerifyGenesis \/ ProcessorInit \/ ExporterInit
    \/ Start \/ LoopTop \/ Tick \/ Sleep \/ Select
    \/ GetBlock \/ Process \/ Receive
    \/ FlushCreateTemp \/ FlushEncodeTemp \/ FlushRenameTemp
    \/ Callback \/ RoundComplete \/ StagePanics
    \/ ParentCancel \/ Wait \/ Stop \/ StopReturns \/ StopAgain

SpecAnyOrder == Init /\ [][NextAnyOrder]_vars

\* ============================================================ properties
StageErrors == {"importer", "processor", "exporter"}

\* A rename of the temp file onto metadata.json takes place in this step.
Renames ==
    /\ pc = "init_rename" \/ wpc = "flush_rename"
    /\ temp.kind # "absent"
    /\ temp'.kind = "absent"

\* C1: whenever an attempt of a round fails (in GetBlock, Process, Receive
\* or a completion callback), the next GetBlock call targets the round of
\* the failed attempt.
C1_RetrySameRound ==
    precededBy.round # NoRound => attemptRound = precededBy.round

\* C1, restricted to the failures the code does retry on the same round:
\* after a failure of GetBlock, Process or Receive the next GetBlock call
\* targets the round of the failed attempt.
C1_StageRetrySameRound ==
    precededBy.stage \in StageErrors => attemptRound = precededBy.round

\* C2 as stated: every value written to metadata.json is at least the value
\* written before it, and the value the worker writes after an exported
\* round is exactly 1 greater than the value written before it.
C2_Original ==
    [][ (Renames /\ meta.kind = "full") =>
            /\ meta'.rec.NextRound >= meta.rec.NextRound
            /\ (wpc = "flush_rename" =>
                    meta'.rec.NextRound = meta.rec.NextRound + 1) ]_vars

\* C2 amended: unless a NextRoundOverride has set the cursor below the
\* stored next-round, the written values never decrease; the value written
\* after an exported round N is exactly N + 1, and it is exactly 1 greater
\* than the value written before it when no override was used and no flush
\* has failed.
C2_CursorMonotone ==
    [][ Renames =>
            /\ meta'.kind = "full"
            /\ (meta.kind = "full" /\ ~rewound =>
                    meta'.rec.NextRound >= meta.rec.NextRound)
            /\ (wpc = "flush_rename" =>
                    /\ meta'.rec.NextRound = received[Len(received)] + 1
                    /\ (meta.kind = "full" /\ ~overrideEver /\ ~flushFailed =>
                            meta'.rec.NextRound = meta.rec.NextRound + 1)) ]_vars

\* C2 witness: the worker has replaced a stored next-round by the next one.
C2_Witness ==
    /\ wpc = "callback" /\ flushDone
    /\ meta.kind = "full" /\ meta.rec.NextRound = 2
    /\ received = << 0, 1 >>

\* C3: with no NextRoundOverride, a process started after a kill first
\* fetches round N if the predecessor was killed after Receive accepted N
\* and before the rename completed, and round N + 1 if it was killed after
\* the rename completed.
C3_AtLeastOnce ==
    (~overrideEver /\ killed.round # NoRound /\ firstFetched # NoRound) =>
        firstFetched = IF killed.renamed THEN killed.round + 1
                       ELSE killed.round

\* C4: with no NextRoundOverride, and whether or not a flush has failed, the
\* next-round stored in metadata.json is never more than 1 behind the
\* in-memory nextRound of the started pipeline.
C4_ReplayAtMostOne ==
    (~overrideEver /\ meta.kind = "full"
        /\ pc \in {"running", "waited", "stopping", "stopped"}) =>
        pipelineMetadata.NextRound - meta.rec.NextRound <= 1

\* C5: when the worker exits on retry exhaustion after GetBlock, Process or
\* Receive failed on every attempt of round N, it has made RetryCount + 1
\* attempts of round N, Error() is the failing stage's error, and
\* metadata.json still stores N (stated for executions with no
\* NextRoundOverride and no failed flush, where the stored value is the
\* cursor).
C5_RetryExhaustion ==
    (wpc = "exhausted" /\ attempts >= 1 /\ ~overrideEver /\ ~flushFailed) =>
        /\ attempts = RetryCount + 1
        /\ err \in StageErrors /\ err = lastFailure.stage
        /\ meta.kind = "full"
        /\ meta.rec.NextRound = pipelineMetadata.NextRound


\* The step is the end of a round in which the importer, every processor,
\* the exporter and every completion callback succeeded.
CompletesRound ==
    /\ wpc = "callback" /\ idx > Len(completeCallback)
    /\ wpc' = "top"

\* A step taken while the worker goroutine of one process exists.
WorkerStep == wpc # "idle" /\ wpc' # "idle"

\* C6: the worker sets retry back to 0 exactly in the step that completes a
\* fully successful round, and every other change of retry is the increment
\* of a failed attempt; hence a round whose first attempt follows a fully
\* successful round (or Start) is attempted RetryCount + 1 times before the
\* worker gives up on it.
C6_RetryReset ==
    [][ /\ (WorkerStep /\ retry' = 0 /\ retry # 0 => CompletesRound)
        /\ (CompletesRound => retry' = 0)
        /\ (WorkerStep /\ retry' # retry /\ ~CompletesRound =>
                retry' = retry + 1 /\ wpc' = "top" /\ err' # "nil")
        /\ (wpc' = "exhausted" /\ attempts' >= 1 /\ cleanStart' =>
                attempts' = RetryCount + 1) ]_vars

\* C6 witness: after a fully successful round the next round failed on
\* every attempt and used the whole budget.
C6_Witness ==
    /\ wpc = "exhausted" /\ cleanStart /\ received # <<>>
    /\ attempts = RetryCount + 1

\* The file Init found is a complete record of another genesis.
GenesisMismatch ==
    /\ metaAtInit.kind = "full"
    /\ metaAtInit.rec.GenesisHash # Base64Encode(cfg.genesis.hash)

\* C7: when Init finds a non-empty metadata.json whose genesis-hash is not
\* the base64 of the importer's genesis hash, Init ends in an error, no
\* processor or exporter Init is called, no GetBlock or Receive call is
\* made, and metadata.json is as Init found it.
C7_GenesisBinding ==
    (pc \notin {"down", "constructed"} /\ GenesisMismatch) =>
        /\ pc \in {"load", "verify", "init_failed"}
        /\ inited \subseteq {ImporterStage}
        /\ wpc = "idle" /\ firstFetched = NoRound /\ received = <<>>
        /\ meta = metaAtInit

\* C7 witness: Init has failed on the genesis check of a file that stores
\* an advanced cursor.
C7_Witness ==
    /\ pc = "init_failed" /\ initErr = "genesis"
    /\ GenesisMismatch
    /\ meta.rec.NextRound > 0

\* C8: within a run the exporter accepts consecutive rounds, starting from
\* the cursor at Start.
C8_NoRoundSkipped ==
    /\ received # <<>> => received[1] = cursorAtStart
    /\ \A i \in 2..Len(received) : received[i] = received[i - 1] + 1

\* C8 witness: two rounds were accepted in a run that had a failed attempt
\* pending.
C8_Witness ==
    /\ Len(received) >= 2
    /\ retry > 0

\* C9 as stated: metadata.json changes only by the rename of a fully
\* written temp file onto it, which leaves it one complete record.
C9_Original ==
    [][ meta' # meta =>
            /\ Renames /\ temp.kind = "full"
            /\ meta'.kind = "full" ]_vars

\* C9 amended: metadata.json never holds partial content; it is absent, one
\* complete record, or the zero-length file found at startup; it changes
\* only by the rename of a fully written temp file onto it or by Init's
\* removal of the zero-length file.
C9_AtomicFlush ==
    [][ /\ meta.kind # "partial" /\ meta'.kind # "partial"
        /\ (meta'.kind = "empty" => meta.kind = "empty")
        /\ (meta' # meta =>
               \/ Renames /\ temp.kind = "full" /\ meta' = temp
               \/ pc = "init_remove" /\ meta.kind = "empty"
                    /\ meta' = AbsentFile) ]_vars

\* C9 witness: a flush was cut short and left a partial temp file next to
\* a complete metadata.json.
C9_Witness ==
    /\ temp.kind = "partial"
    /\ meta.kind = "full" /\ meta.rec.NextRound > 0

\* The round Init leaves in the cursor.
ExpectedFirstRound ==
    IF cfg.NextRoundOverride > 0 THEN cfg.NextRoundOverride
    ELSE IF metaAtInit.kind = "full" THEN metaAtInit.rec.NextRound
    ELSE 0

\* C10: the first GetBlock call after a successful Init targets
\* NextRoundOverride when it is set, else the next-round of the non-empty
\* metadata.json, else round 0; in the last case Init has written the
\* importer's genesis hash and network with next-round 0 to metadata.json.
C10_FirstRound ==
    /\ firstFetched # NoRound => firstFetched = ExpectedFirstRound
    /\ (pc = "initialized" /\ metaAtInit.kind \in {"absent", "empty"}) =>
            meta = FullFile([GenesisHash |-> Base64Encode(cfg.genesis.hash),
                             Network |-> cfg.genesis.network,
                             NextRound |-> 0])

\* C10 witness: the override sent the first GetBlock to a round other than
\* the stored one.
C10_Witness ==
    /\ firstFetched # NoRound
    /\ cfg.NextRoundOverride > 0
    /\ metaAtInit.kind = "full"
    /\ metaAtInit.rec.NextRound > cfg.NextRoundOverride

\* C11 as stated: once the context is cancelled, no GetBlock call begins.
\* The check of the context (lines 420-424) and the call of GetBlock (line
\* 428) are two steps, and a cancellation can fall between them.
C11_Original ==
    [][(WorkerStep /\ wpc = "import" /\ wpc' # "import") => ~ctxDone]_vars

\* C11, amended: a cancelled context stays cancelled, the worker's next
\* check of it ends the worker, and the worker comes to call GetBlock only
\* from a check that found the context not cancelled; so after the
\* cancellation at most the one GetBlock call begins whose check had
\* already passed.
C11_CancelStopsFetching ==
    [][WorkerStep =>
        /\ ctxDone => ctxDone'
        /\ (wpc = "select" /\ wpc' # "select" /\ ctxDone)
              => wpc' = "cancelled"
        /\ (wpc' = "import" /\ wpc # "import")
              => wpc = "select" /\ ~ctxDone]_vars

C11_Witness == wpc = "import" /\ ctxDone /\ pc = "stopping"

\* C12: the sleep between retries is interruptible: once the context is
\* cancelled the worker spends no more of the retry delay asleep.  Line 417
\* is a plain time.Sleep, which runs to its end.
C12_SleepInterruptible ==
    [][(wpc = "sleep" /\ ctxDone /\ wpc' = "sleep")
           => sleepLeft' = sleepLeft]_vars

\* An attempt fails in this step: a stage or callback call returned an error.
FailsAttempt == WorkerStep /\ retry' = retry + 1

\* C13: Error() is nil until the first failing call; a failing call makes it
\* the error of that call, whatever it held before; the step that completes
\* a fully successful round makes it nil; no other step of the worker or of
\* the caller changes it, and a worker that gave up on its retries leaves
\* the error of its last failed attempt.
C13_ErrorLatch ==
    /\ [](wpc = "exhausted" => err # "nil" /\ err = lastFailure.stage)
    /\ [][WorkerStep =>
            /\ FailsAttempt => err' = lastFailure'.stage /\ err' # "nil"
            /\ CompletesRound => err' = "nil"
            /\ (~FailsAttempt /\ ~CompletesRound) => err' = err]_vars

C13_Witness ==
    /\ wpc = "exhausted"
    /\ err = "processor"
    /\ precededBy.stage = "importer"
    /\ received # << >>

\* The stages in the order importer, processors as declared, exporter.
StageOrder == [i \in 1..(NumProcessors + 2) |-> i - 1]

\* C14: Stop() closes the importer, then the processors in declaration
\* order, then the exporter; the first Close happens only when the worker
\* has exited, and the worker makes no step afterwards; when Stop() returns
\* every stage has been closed, whether or not a Close returned an error.
C14_StopClosesAll ==
    /\ [](/\ Len(closed) <= Len(StageOrder)
          /\ \A i \in 1..Len(closed) : closed[i] = StageOrder[i]
          /\ closed # << >> => WorkerExited /\ wg = 0
          /\ pc = "stopped" => closed = StageOrder)
    /\ [][(closed # << >> /\ closed' # << >>) => wpc' = wpc]_vars

C14_Witness ==
    /\ pc = "stopped"
    /\ closeFailed
    /\ closed = StageOrder
    /\ received # << >>

\* Calls of Close made on stage s so far.
CloseCount(s) == Cardinality({i \in DOMAIN closed : closed[i] = s})

\* Every stage's Init is called at most once, and exactly once before the
\* worker makes any step call; every stage's Close is called at most once.
LifecycleRespected ==
    /\ \A s \in Stages : initCount[s] <= 1
    /\ wpc # "idle" => \A s \in Stages : initCount[s] = 1
    /\ \A s \in Stages : CloseCount(s) <= 1

\* C15 as stated: whatever the caller calls, each stage sees Init once,
\* before its step calls, and Close at most once.  A second Stop() closes
\* every stage a second time.
C15_Original == LifecycleRespected

\* C15, amended: when the caller follows the lifecycle (Init once, Start
\* after a successful Init, Stop at most once), each stage's Init is called
\* at most once and exactly once before any step call, and its Close at
\* most once.
C15_LifecycleWhenStoppedOnce == stopCalls <= 1 => LifecycleRespected

C15_Witness ==
    /\ stopCalls = 1
    /\ pc = "stopped"
    /\ \A s \in Stages : initCount[s] = 1 /\ CloseCount(s) = 1
    /\ received # << >>

\* C16: Wait() has returned only if the worker has exited; whenever the
\* worker has exited, by cancellation, by exhausting its retries or by a
\* panic in a stage call, the counter Wait() blocks on is zero, so Wait()
\* returns; a worker that panicked takes no further step: it is not
\* restarted and calls no stage.
C16_WaitFollowsExit ==
    /\ [](/\ pc = "waited" => WorkerExited
          /\ WorkerExited => wg = 0)
    /\ [][(wpc = "panicked" /\ WorkerStep) =>
             /\ wpc' = "panicked"
             /\ UNCHANGED << pipelineMetadata, retry, err, blkData,
                             attempts, received, cbInvoked >>]_vars

C16_Witness ==
    /\ wpc = "panicked"
    /\ pc = "waited"
    /\ received # << >>

Flushing == wpc \in {"flush_create", "flush_write", "flush_rename"}

\* C18 as stated: every completion callback of a round has been invoked
\* when the metadata of that round is flushed.
C18_Original == Flushing => cbInvoked = Len(completeCallback)

\* C18, amended: the order is exporter, flush, callbacks.  While the flush
\* of a round is under way no completion callback of that round has been
\* invoked; the worker enters the callback loop only from the end of the
\* flush, and invokes callbacks only there.
C18_FlushBeforeCallbacks ==
    /\ [](Flushing => cbInvoked = 0)
    /\ [][WorkerStep =>
            /\ cbInvoked' > cbInvoked => wpc = "callback"
            /\ (wpc' = "callback" /\ wpc # "callback") => Flushing]_vars

C18_Witness ==
    /\ wpc = "top"
    /\ cbInvoked = Len(completeCallback)
    /\ cbInvoked > 0
    /\ flushDone
    /\ meta.kind = "full"
    /\ meta.rec.NextRound = 1
    /\ received = << 0 >>

\* C19: when the worker has fetched, or is about to fetch, a round after
\* the round N that the exporter accepted last, every registered completion
\* callback has been invoked with block N.  A callback that returns an
\* error ends the callback loop (lines 475-480) with the cursor already at
\* N + 1, so the callbacks after it never see block N.
C19_CallbacksBeforeNextRound ==
    (received # << >> /\ (wpc = "import" \/ attempts >= 1))
        => cbInvoked = Len(completeCallback)

\* The round the exporter accepted last.
LastReceived == received[Len(received)]

\* The flush of the round accepted last ends in this step with an error.
FlushFails == WorkerStep /\ Flushing /\ ~Flushing' /\ ~flushDone'

\* The flush of the round accepted last ends in this step with the rename.
FlushSucceeds == WorkerStep /\ Flushing /\ ~Flushing' /\ flushDone'

\* C20: a flush that fails after Receive accepted round N leaves retry, the
\* latched error and the in-memory next round (N + 1) as they are and
\* starts the callback loop at its first callback with block N; the
\* callbacks see block N, the next GetBlock asks for N + 1, and a flush
\* that succeeds leaves in metadata.json the in-memory metadata of that
\* moment.
C20_FlushFailureTolerated ==
    /\ [][FlushFails =>
            /\ retry' = retry /\ err' = err
            /\ pipelineMetadata' = pipelineMetadata
            /\ pipelineMetadata.NextRound = LastReceived + 1
            /\ wpc' = "callback" /\ idx' = 1
            /\ blkData' = blkData /\ blkData.round = LastReceived]_vars
    /\ [](/\ wpc = "callback" => blkData.round = LastReceived
          /\ (wpc \in {"select", "import"} /\ received # << >>) =>
                pipelineMetadata.NextRound = LastReceived + 1)
    /\ [][FlushSucceeds =>
            /\ meta'.kind = "full"
            /\ meta'.rec = pipelineMetadata']_vars

C20_Witness ==
    /\ wpc = "callback"
    /\ received = << 0, 1 >>
    /\ runs = 1
    /\ flushFailed /\ flushDone
    /\ meta.kind = "full" /\ meta.rec.NextRound = 2
    /\ retry = 0 /\ err = "nil"

\* C21: whenever the worker is at the retry check at the top of its loop,
\* retry is between 0 and RetryCount + 1, and it is 0 exactly when Error()
\* is nil; whenever the worker is about to call GetBlock, or has an attempt
\* under way, retry is at most RetryCount.
C21_RetryInvariant ==
    /\ wpc = "top" =>
          /\ retry \in 0..(RetryCount + 1)
          /\ retry = 0 <=> err = "nil"
    /\ wpc \in {"sleep", "select", "import", "process", "export"} =>
          /\ retry <= RetryCount
          /\ retry = 0 <=> err = "nil"

C21_Witness ==
    /\ wpc = "top"
    /\ retry = RetryCount + 1
    /\ err = "exporter"
    /\ received # << >>
====
